---- MODULE Spec2Model ----
\* Route-table resource of kubicorn (cloud/amazon/resources/routetable.go):
\* the reconciliation contract Actual / Expected / Apply / Delete of one
\* RouteTable instance against an EC2-like provider and the cluster model.
EXTENDS Integers, Sequences, FiniteSets, TLC

VARIABLES
    cluster,    \* *cluster.Cluster: Name, Network.Identifier, ServerPools
    r,          \* the *RouteTable receiver: Name, ServerPool, ClusterSubnet, caches
    tables,     \* provider: the route tables that exist remotely
    gateways,   \* provider: the internet gateways that exist remotely
    nextId,     \* provider: number of route tables created so far
    orphans,    \* history: ids of tables created by an Apply that then failed
    followUp,   \* history: this instance was built right after an Apply that
                \* created a route table and succeeded
    last        \* the last operation: its result, the provider calls it issued,
                \* and the receiver and the tables as they were when it was called

vars == <<cluster, r, tables, gateways, nextId, orphans, followUp, last>>

\* ---------------------------------------------------------------- bounds
MaxTables == 2      \* route tables the provider hands out in one run

Names == {"a", "b"}
PoolIds == {1, 2}   \* the cluster has two server pools of one subnet each

\* ------------------------------------------------------------- constants
PairTag == "kubicorn-route-table-subnet-pair"
GatewayTag == "kubicorn-internet-gateway-name"
DefaultCidr == "0.0.0.0/0"
VpcId == "vpc-1"

\* ------------------------------------------------------------- snapshots
\* Shared{Name, CloudID, Tags}; Tags is a map, held as a set of <<key, value>>.
Snapshot(name, id, tags) == [Name |-> name, CloudID |-> id, Tags |-> tags]

\* A nil pointer is the empty sequence, a set pointer a one-element sequence.
Nil == <<>>
Ptr(x) == <<x>>
Deref(p) == p[1]

RtbId(n) == "rtb-" \o ToString(n)
SubnetId(p) == "subnet-" \o ToString(p)
AssocId(rid) == "rtbassoc-" \o rid

\* --------------------------------------------------------- cluster model
ClusterSubnet == cluster.ServerPools[r.ServerPool].Subnets[r.ClusterSubnet]
ServerPool == cluster.ServerPools[r.ServerPool]

\* ------------------------------------------------------------ comparator
\* compare.IsEqual: Name, CloudID and Tags pointwise identical.
IsEqual(a, e) == a.Name = e.Name /\ a.CloudID = e.CloudID /\ a.Tags = e.Tags

\* -------------------------------------------------------------- provider
\* One provider call as it was issued: its API, its arguments, its outcome.
Call(api, args, ok) == [api |-> api, args |-> args, ok |-> ok]

\* DescribeRouteTables with the filter tag:kubicorn-route-table-subnet-pair.
DescribeRouteTables(value) == {t \in tables : <<PairTag, value>> \in t.Tags}

\* DescribeInternetGateways with the filter tag:kubicorn-internet-gateway-name.
DescribeInternetGateways(value) == {g \in gateways : g.Name = value}

\* Mutant: a lookup that accepts several matches and takes the first.
CardinalityAtLeastOne(n) == n >= 1

\* llc != 1 / lsn != 1: the lookup must yield exactly one object.
CardinalityOK(n) == n = 1

\* output.RouteTables[0], output.InternetGateways[0]
First(S) == CHOOSE x \in S : TRUE

NoOp == [op |-> "none", kind |-> "ok", err |-> "", snap |-> Nil,
         calls |-> <<>>, pre |-> <<>>]

Result(op, kind, err, snap, calls) ==
    [op |-> op, kind |-> kind, err |-> err, snap |-> snap,
     calls |-> calls, pre |-> [r |-> r, tables |-> tables]]

Running == last.kind # "panic"

\* ---------------------------------------------------------------- Actual
\* Mutant: Actual that looks the table up whether or not the subnet is realized.
ActualAlwaysQueries(subnet) == TRUE

\* if r.ClusterSubnet.Identifier != ""
ActualQueries(subnet) == subnet.Identifier # ""

\* Mutant: Actual that ignores its cache.
ActualNeverCached(rr) == FALSE

\* if r.CachedActual != nil
ActualCached(rr) == rr.CachedActual # Nil

\* Mutant: Actual that does not copy the tags of the table it found.
ActualFoundNoTags(rt, subnet) == Snapshot(subnet.Name, subnet.Name, {})

\* rt.Tags copied into actual.Tags; Name and CloudID from the subnet's name
ActualFound(rt, subnet) == Snapshot(subnet.Name, subnet.Name, rt.Tags)

\* the default snapshot built before the lookup
ActualDefault(name) == Snapshot(name, "", {})

Actual ==
    /\ Running
    /\ \E fail \in BOOLEAN :
        LET out == DescribeRouteTables(ClusterSubnet.Name)
            call == Call("DescribeRouteTables", <<PairTag, ClusterSubnet.Name>>, ~fail)
        IN  IF ActualCached(r)
            THEN /\ last' = Result("Actual", "ok", "", r.CachedActual, <<>>)
                 /\ fail = FALSE
                 /\ r' = r
            ELSE IF ~ActualQueries(ClusterSubnet)
            THEN /\ fail = FALSE
                 /\ r' = [r EXCEPT !.CachedActual = Ptr(ActualDefault(r.Name))]
                 /\ last' = Result("Actual", "ok", "", r'.CachedActual, <<>>)
            ELSE IF fail
            THEN /\ r' = r
                 /\ last' = Result("Actual", "error", "TransportFault", Nil, <<call>>)
            ELSE IF ~CardinalityOK(Cardinality(out))
            THEN /\ r' = r
                 /\ last' = Result("Actual", "error", "CardinalityFault", Nil, <<call>>)
            ELSE /\ r' = [r EXCEPT !.CachedActual = Ptr(ActualFound(First(out), ClusterSubnet))]
                 /\ last' = Result("Actual", "ok", "", r'.CachedActual, <<call>>)
    /\ UNCHANGED <<cluster, tables, gateways, nextId, orphans, followUp>>

\* -------------------------------------------------------------- Expected
\* Mutant: Expected that writes the cluster's name into the identity pair.
ExpectedTagsSwapped(name, clusterName, subnetName) ==
    {<<"Name", name>>, <<"KubernetesCluster", subnetName>>, <<PairTag, clusterName>>}

ExpectedTags(name, clusterName, subnetName) ==
    {<<"Name", name>>, <<"KubernetesCluster", clusterName>>, <<PairTag, subnetName>>}

ExpectedSnapshot(name, clusterName, subnetName, poolName) ==
    Snapshot(poolName, poolName, ExpectedTags(name, clusterName, subnetName))

Expected ==
    /\ Running
    /\ IF r.CachedExpected # Nil
       THEN /\ r' = r
            /\ last' = Result("Expected", "ok", "", r.CachedExpected, <<>>)
       ELSE /\ r' = [r EXCEPT !.CachedExpected =
                        Ptr(ExpectedSnapshot(r.Name, cluster.Name, ClusterSubnet.Name,
                                             ServerPool.Name))]
            /\ last' = Result("Expected", "ok", "", r'.CachedExpected, <<>>)
    /\ UNCHANGED <<cluster, tables, gateways, nextId, orphans, followUp>>

\* ----------------------------------------------------------------- Apply
\* Mutant: Apply without its early return.
ApplyNeverNoop(actual, expected) == FALSE

\* isEqual: the no-op path of Apply
ApplyIsNoop(actual, expected) == IsEqual(actual, expected)

\* the scan of applyCluster.ServerPools for sp.Name == r.Name, sn.Name == r.Name;
\* a later match overwrites an earlier one
RECURSIVE ScanSubnets(_, _, _)
ScanSubnets(subnets, name, acc) ==
    IF subnets = <<>> THEN acc
    ELSE ScanSubnets(Tail(subnets), name,
                     IF Head(subnets).Name = name THEN Head(subnets).Identifier ELSE acc)

RECURSIVE ScanPools(_, _, _)
ScanPools(pools, name, acc) ==
    IF pools = <<>> THEN acc
    ELSE ScanPools(Tail(pools), name,
                   IF Head(pools).Name = name
                   THEN ScanSubnets(Head(pools).Subnets, name, acc) ELSE acc)

\* Mutant: Apply that takes the first subnet of the cluster, whatever its name.
FindSubnetIDOfFirstPool(cl, name) == cl.ServerPools[1].Subnets[1].Identifier

FindSubnetID(cl, name) == ScanPools(cl.ServerPools, name, "")

\* Mutant: Apply that goes on after CreateRoute failed.
ApplyStopIgnoresRouteError(fail, ngw, subnetID) ==
    IF fail = 1 THEN 1
    ELSE IF fail = 2 \/ ngw # 1 THEN 2
    ELSE IF subnetID = "" THEN 4
    ELSE IF fail = 4 THEN 5
    ELSE IF fail = 5 THEN 6
    ELSE 7

\* Where Apply returns on its non-equal path: 1 CreateRouteTable failed,
\* 2 DescribeInternetGateways failed or did not yield one gateway, 3 CreateRoute
\* failed, 4 no subnet id, 5 AssociateRouteTable failed, 6 CreateTags failed,
\* 7 success. fail is the provider call that fails (0: none).
ApplyStop(fail, ngw, subnetID) ==
    IF fail = 1 THEN 1
    ELSE IF fail = 2 \/ ~CardinalityOK(ngw) THEN 2
    ELSE IF fail = 3 THEN 3
    ELSE IF subnetID = "" THEN 4
    ELSE IF fail = 4 THEN 5
    ELSE IF fail = 5 THEN 6
    ELSE 7

ApplyError(stop, fail) ==
    IF stop = 2 /\ fail # 2 THEN "CardinalityFault"
    ELSE IF stop = 4 THEN "MissingPrerequisite"
    ELSE "TransportFault"

\* The provider calls Apply issues before it returns at stop, in order.
ApplyCalls(stop, fail, rid, vpc, clusterName, gw, subnetID, target, tags) ==
    LET all == << Call("CreateRouteTable", <<vpc>>, fail # 1),
                  Call("DescribeInternetGateways", <<GatewayTag, clusterName>>, fail # 2),
                  Call("CreateRoute", <<rid, DefaultCidr, gw>>, fail # 3),
                  Call("AssociateRouteTable", <<rid, subnetID>>, fail # 4),
                  Call("CreateTags", <<target, tags>>, fail # 5) >>
        n == CASE stop = 1 -> 1
               [] stop = 2 -> 2
               [] stop \in {3, 4} -> 3
               [] stop = 5 -> 4
               [] OTHER -> 5
    IN  SubSeq(all, 1, n)

\* Mutant: Apply that tags the table right after creating it.
ApplyTableTagsFirst(stop, rid, vpc, gw, subnetID, target, tags) ==
    [RouteTableId |-> rid,
     VpcId |-> vpc,
     Routes |-> IF stop > 3 THEN {[Destination |-> DefaultCidr, GatewayId |-> gw]} ELSE {},
     Associations |-> IF stop > 5
                      THEN <<[RouteTableAssociationId |-> AssocId(rid), SubnetId |-> subnetID]>>
                      ELSE <<>>,
     Tags |-> tags]

\* The route table as the provider holds it after the calls that succeeded;
\* CreateTags tags the object that expected.CloudID addresses.
ApplyTable(stop, rid, vpc, gw, subnetID, target, tags) ==
    [RouteTableId |-> rid,
     VpcId |-> vpc,
     Routes |-> IF stop > 3 THEN {[Destination |-> DefaultCidr, GatewayId |-> gw]} ELSE {},
     Associations |-> IF stop > 5
                      THEN <<[RouteTableAssociationId |-> AssocId(rid), SubnetId |-> subnetID]>>
                      ELSE <<>>,
     Tags |-> IF stop > 6 /\ target = rid THEN tags ELSE {}]

\* Mutant: Apply that forgets to record the new table's id.
ApplyKeepsPlaceholder(expected, rid) == expected

\* expected.(*RouteTable).CloudID = *rtOutput.RouteTable.RouteTableId
ApplyAssignID(expected, rid) == [expected EXCEPT !.CloudID = rid]

\* newResource: CloudID and Name of expected, nothing else
ApplyResult(expected) == Snapshot(expected.Name, expected.CloudID, {})

Apply ==
    /\ Running
    /\ r.CachedActual # Nil
    /\ r.CachedExpected # Nil
    /\ LET actual == Deref(r.CachedActual)
           expected == Deref(r.CachedExpected)
       IN  IF ApplyIsNoop(actual, expected)
           THEN /\ last' = Result("Apply", "ok", "", Ptr(expected), <<>>)
                /\ UNCHANGED <<r, tables, nextId, orphans>>
           ELSE /\ nextId < MaxTables
                /\ \E fail \in 0..5 :
                    LET rid == RtbId(nextId + 1)
                        igs == DescribeInternetGateways(cluster.Name)
                        subnetID == FindSubnetID(cluster, r.Name)
                        stop == ApplyStop(fail, Cardinality(igs), subnetID)
                        gw == IF stop > 2 THEN First(igs).InternetGatewayId ELSE ""
                        applied == ApplyAssignID(expected, rid)
                        calls == ApplyCalls(stop, fail, rid, cluster.Network.Identifier,
                                            cluster.Name, gw, subnetID, applied.CloudID,
                                            applied.Tags)
                    IN  /\ tables' = IF stop > 1
                                     THEN tables \cup {ApplyTable(stop, rid, cluster.Network.Identifier,
                                                                  gw, subnetID, applied.CloudID,
                                                                  applied.Tags)}
                                     ELSE tables
                        /\ nextId' = IF stop > 1 THEN nextId + 1 ELSE nextId
                        /\ orphans' = IF stop > 1 /\ stop < 7 THEN orphans \cup {rid} ELSE orphans
                        /\ r' = IF stop > 5 THEN [r EXCEPT !.CachedExpected = Ptr(applied)] ELSE r
                        /\ last' = IF stop = 7
                                   THEN Result("Apply", "ok", "", Ptr(ApplyResult(applied)), calls)
                                   ELSE Result("Apply", "error", ApplyError(stop, fail), Nil, calls)
    /\ followUp' = FALSE
    /\ UNCHANGED <<cluster, gateways>>

\* ---------------------------------------------------------------- Delete
\* Mutant: Delete without the check of the CloudID.
DeleteAnyID(actual) == TRUE

\* if deleteResource.CloudID == "": nothing to delete
DeleteHasID(actual) == actual.CloudID # ""

\* Where Delete returns: 0 no CloudID, 1 DescribeRouteTables failed or did not
\* yield one table, 2 rt.Associations[0] on a table without association (index
\* out of range), 3 DisassociateRouteTable failed, 4 DeleteRouteTable failed,
\* 5 success. fail is the provider call that fails (0: none).
DeleteStop(actual, fail, out) ==
    IF ~DeleteHasID(actual) THEN 0
    ELSE IF fail = 1 \/ ~CardinalityOK(Cardinality(out)) THEN 1
    ELSE IF Len(First(out).Associations) = 0 THEN 2
    ELSE IF fail = 2 THEN 3
    ELSE IF fail = 3 THEN 4
    ELSE 5

DeleteError(stop, fail) ==
    IF stop = 0 THEN "MissingIdentifier"
    ELSE IF stop = 1 /\ fail # 1 THEN "CardinalityFault"
    ELSE "TransportFault"

\* The provider calls Delete issues before it returns at stop, in order.
DeleteCalls(stop, fail, subnetName, assoc, rid) ==
    LET all == << Call("DescribeRouteTables", <<PairTag, subnetName>>, fail # 1),
                  Call("DisassociateRouteTable", <<assoc>>, fail # 2),
                  Call("DeleteRouteTable", <<rid>>, fail # 3) >>
        n == CASE stop = 0 -> 0
               [] stop \in {1, 2} -> 1
               [] stop = 3 -> 2
               [] OTHER -> 3
    IN  SubSeq(all, 1, n)

\* The provider's tables after the calls of Delete that succeeded.
DeleteTables(stop, rt) ==
    IF stop = 4
    THEN (tables \ {rt}) \cup {[rt EXCEPT !.Associations = Tail(rt.Associations)]}
    ELSE IF stop = 5 THEN tables \ {rt}
    ELSE tables

\* Mutant: Delete that returns the snapshot it was given.
DeleteResultKeepsID(actual) == Snapshot(actual.Name, actual.CloudID, actual.Tags)

\* newResource: Name and Tags of actual, CloudID left empty
DeleteResult(actual) == Snapshot(actual.Name, "", actual.Tags)

Delete ==
    /\ Running
    /\ r.CachedActual # Nil
    /\ \E fail \in 0..3 :
        LET actual == Deref(r.CachedActual)
            out == DescribeRouteTables(ClusterSubnet.Name)
            stop == DeleteStop(actual, fail, out)
            rt == First(out)
            assoc == IF stop > 2 THEN rt.Associations[1].RouteTableAssociationId ELSE ""
            rid == IF stop > 2 THEN rt.RouteTableId ELSE ""
            calls == DeleteCalls(stop, fail, ClusterSubnet.Name, assoc, rid)
        IN  /\ tables' = DeleteTables(stop, rt)
            /\ last' = CASE stop = 5 -> Result("Delete", "ok", "", Ptr(DeleteResult(actual)), calls)
                         [] stop = 2 -> Result("Delete", "panic", "index out of range", Nil, calls)
                         [] OTHER -> Result("Delete", "error", DeleteError(stop, fail), Nil, calls)
    /\ followUp' = FALSE
    /\ UNCHANGED <<cluster, r, gateways, nextId, orphans>>

\* ------------------------------------------------------------------- Tag
\* CreateTags on a route table: the keys given are set, the others kept.
Retag(old, tags) == {kv \in old : \A n \in tags : n[1] # kv[1]} \cup tags

\* The provider's tables after a CreateTags on target that succeeded.
TagTables(target, tags) ==
    {IF t.RouteTableId = target THEN [t EXCEPT !.Tags = Retag(t.Tags, tags)] ELSE t :
        t \in tables}

\* Tag called by itself, as Apply calls it: on the expected snapshot, with that
\* snapshot's tags. The provider refuses an id that names no route table.
Tag ==
    /\ Running
    /\ r.CachedExpected # Nil
    /\ \E fail \in BOOLEAN :
        LET expected == Deref(r.CachedExpected)
            call == Call("CreateTags", <<expected.CloudID, expected.Tags>>, ~fail)
        IN  /\ (expected.CloudID \notin {t.RouteTableId : t \in tables}) => fail
            /\ tables' = IF fail THEN tables ELSE TagTables(expected.CloudID, expected.Tags)
            /\ last' = IF fail
                       THEN Result("Tag", "error", "TransportFault", Nil, <<call>>)
                       ELSE Result("Tag", "ok", "", Nil, <<call>>)
    /\ UNCHANGED <<cluster, r, gateways, nextId, orphans, followUp>>

\* ---------------------------------------------------- driver, environment
\* A new pass constructs a new RouteTable value: same wiring, empty caches.
NewInstance ==
    /\ r.CachedActual # Nil \/ r.CachedExpected # Nil \/ ~Running
    /\ r' = [r EXCEPT !.CachedActual = Nil, !.CachedExpected = Nil]
    /\ followUp' = (last.op = "Apply" /\ last.kind = "ok" /\ last.calls # <<>>)
    /\ last' = NoOp
    /\ UNCHANGED <<cluster, tables, gateways, nextId, orphans>>

\* The subnet resource of pool p is realized and its id written to the model.
RealizeSubnet ==
    /\ Running
    /\ \E p \in 1..Len(cluster.ServerPools) :
        /\ cluster.ServerPools[p].Subnets[1].Identifier = ""
        /\ cluster' = [cluster EXCEPT !.ServerPools[p].Subnets[1].Identifier = SubnetId(p)]
    /\ last' = NoOp
    /\ UNCHANGED <<r, tables, gateways, nextId, orphans, followUp>>

\* ------------------------------------------------------------------ Init
Pool(name, subnetName) ==
    [Name |-> name, Identifier |-> "",
     Subnets |-> <<[Name |-> subnetName, Identifier |-> ""]>>]

Init ==
    /\ \E pn \in [PoolIds -> Names], sn \in [PoolIds -> Names], cn \in Names :
        cluster = [Name |-> cn, Network |-> [Identifier |-> VpcId],
                   ServerPools |-> <<Pool(pn[1], sn[1]), Pool(pn[2], sn[2])>>]
    /\ \E n \in Names, p \in PoolIds :
        r = [Name |-> n, ServerPool |-> p, ClusterSubnet |-> 1,
             CachedActual |-> Nil, CachedExpected |-> Nil]
    /\ tables = {}
    /\ \E tag \in Names :
        gateways = {[InternetGatewayId |-> "igw-1", Name |-> "a"],
                    [InternetGatewayId |-> "igw-2", Name |-> tag]}
    /\ nextId = 0
    /\ orphans = {}
    /\ followUp = FALSE
    /\ last = NoOp

Next ==
    \/ Actual
    \/ Expected
    \/ Apply
    \/ Delete
    \/ Tag
    \/ NewInstance
    \/ RealizeSubnet

Spec == Init /\ [][Next]_vars

\* ======================================================= claims C1 .. C10
\* What the last operation was called with and what it issued.
PreActual == Deref(last.pre.r.CachedActual)
PreExpected == Deref(last.pre.r.CachedExpected)
Issued(api) == {i \in 1..Len(last.calls) : last.calls[i].api = api}
Ids(T) == {t.RouteTableId : t \in T}
Matching == DescribeRouteTables(ClusterSubnet.Name)
FreshActual == last.op = "Actual" /\ last.pre.r.CachedActual = Nil
MatchingGateways == {g \in gateways : g.Name = cluster.Name}

\* C1: an Apply made right after an Apply that succeeded on the same instance
\* (so with the snapshots the instance's Actual() and Expected() return) issues
\* no provider call and leaves the remote route tables as they were.
C1_SecondApplyIsNoop ==
    [][(last.op = "Apply" /\ last.kind = "ok" /\ Apply)
        => (last'.calls = <<>> /\ tables' = tables)]_vars

\* C2: on an instance built right after an Apply created the route table and
\* succeeded, for a realized subnet and exactly one tagged gateway, with that
\* table the only one tagged for the subnet, Actual() succeeds (unless the
\* provider call itself fails) and its snapshot equals the one Expected()
\* derives: same Name, same CloudID, same Tags.
C2_FollowingPassReportsEquality ==
    (/\ followUp
     /\ FreshActual
     /\ last.err # "TransportFault"
     /\ ClusterSubnet.Identifier # ""
     /\ Cardinality(MatchingGateways) = 1
     /\ Cardinality(Matching) = 1)
    => /\ last.kind = "ok"
       /\ LET a == Deref(last.snap)
              e == ExpectedSnapshot(r.Name, cluster.Name, ClusterSubnet.Name, ServerPool.Name)
          IN  a.Name = e.Name /\ a.CloudID = e.CloudID /\ a.Tags = e.Tags

\* C3: while a route table created by a failed Apply exists, the Actual() of a
\* fresh instance finds it: it succeeds (unless the provider call itself fails)
\* and returns a snapshot with a non-empty CloudID.
C3_RetryFindsCreatedTable ==
    (/\ FreshActual
     /\ last.err # "TransportFault"
     /\ orphans \cap Ids(tables) # {})
    => /\ last.kind = "ok"
       /\ Deref(last.snap).CloudID # ""

\* C4: an Apply called with unequal snapshots that succeeds has issued, in this
\* order and each once, CreateRouteTable in the cluster's network,
\* DescribeInternetGateways, CreateRoute 0.0.0.0/0 from the new table to the one
\* gateway tagged with the cluster's name, AssociateRouteTable of the new table
\* and CreateTags on the new table with the three tags of the expected snapshot;
\* the new table exists remotely with them and its id is the CloudID returned.
C4_ApplyCreatesOnce ==
    (/\ last.op = "Apply"
     /\ last.kind = "ok"
     /\ ~IsEqual(PreActual, PreExpected))
    => LET rid == Deref(last.snap).CloudID
           new == tables \ last.pre.tables
       IN  /\ Len(last.calls) = 5
           /\ \A i \in 1..5 : last.calls[i].ok
           /\ last.calls[1] = Call("CreateRouteTable", <<cluster.Network.Identifier>>, TRUE)
           /\ last.calls[2].api = "DescribeInternetGateways"
           /\ last.calls[3].api = "CreateRoute"
           /\ \E g \in MatchingGateways :
                /\ MatchingGateways = {g}
                /\ last.calls[3].args = <<rid, "0.0.0.0/0", g.InternetGatewayId>>
           /\ last.calls[4].api = "AssociateRouteTable"
           /\ last.calls[4].args[1] = rid
           /\ last.calls[5] = Call("CreateTags", <<rid, PreExpected.Tags>>, TRUE)
           /\ Cardinality(PreExpected.Tags) = 3
           /\ rid \notin Ids(last.pre.tables)
           /\ last.pre.tables \subseteq tables
           /\ \E t \in new :
                /\ new = {t}
                /\ t.RouteTableId = rid
                /\ t.VpcId = cluster.Network.Identifier
                /\ Cardinality(t.Routes) = 1
                /\ Len(t.Associations) = 1
                /\ t.Tags = PreExpected.Tags

C4_Witness ==
    /\ last.op = "Apply"
    /\ last.kind = "ok"
    /\ ~IsEqual(PreActual, PreExpected)
    /\ Len(last.calls) = 5

\* C5: an Apply called with snapshots the comparator reports equal issues no
\* provider call, leaves the remote tables and the expected snapshot as they
\* were, and returns that expected snapshot.
C5_EqualApplyIsNoop ==
    (last.op = "Apply" /\ IsEqual(PreActual, PreExpected))
    => /\ last.kind = "ok"
       /\ last.calls = <<>>
       /\ tables = last.pre.tables
       /\ last.snap = last.pre.r.CachedExpected
       /\ r.CachedExpected = last.pre.r.CachedExpected

C5_Witness ==
    /\ last.op = "Apply"
    /\ IsEqual(PreActual, PreExpected)
    /\ tables # {}

\* C6: Actual() on an instance without cached actual whose subnet has no
\* Identifier succeeds with CloudID "" and no tags, caches that snapshot and
\* issues no provider call, whatever route tables exist remotely.
C6_UnrealizedSubnetNoCalls ==
    (FreshActual /\ ClusterSubnet.Identifier = "")
    => /\ last.kind = "ok"
       /\ last.calls = <<>>
       /\ Deref(last.snap).CloudID = ""
       /\ Deref(last.snap).Tags = {}
       /\ r.CachedActual = last.snap

C6_Witness ==
    /\ FreshActual
    /\ ClusterSubnet.Identifier = ""
    /\ Matching # {}

\* C7: Actual() on an instance without cached actual, for a subnet with an
\* Identifier, issues the one DescribeRouteTables lookup by the subnet's name;
\* when the lookup matches no table or several, Actual() returns an error and
\* the cached actual stays unset (so the next Actual() looks up again).
C7_CardinalityFaultLeavesCache ==
    (FreshActual /\ ClusterSubnet.Identifier # "")
    => /\ Len(last.calls) = 1
       /\ last.calls[1].api = "DescribeRouteTables"
       /\ last.calls[1].args = <<PairTag, ClusterSubnet.Name>>
       /\ (Cardinality(Matching) # 1
            => /\ last.kind = "error"
               /\ last.snap = Nil
               /\ r.CachedActual = Nil)

C7_Witness ==
    /\ FreshActual
    /\ ClusterSubnet.Identifier # ""
    /\ last.err = "CardinalityFault"
    /\ Cardinality(Matching) >= 2

\* C8: Delete() called with an actual snapshot whose CloudID is "" returns an
\* error, issues no provider call and leaves the remote tables as they were.
C8_DeleteWithoutID ==
    (last.op = "Delete" /\ PreActual.CloudID = "")
    => /\ last.kind = "error"
       /\ last.err = "MissingIdentifier"
       /\ last.calls = <<>>
       /\ tables = last.pre.tables

C8_Witness ==
    /\ last.op = "Delete"
    /\ PreActual.CloudID = ""
    /\ Matching # {}

\* C9: a Delete() that succeeds has looked the table up by the identity tag with
\* exactly one match, disassociated that table's first association and then
\* deleted that table, each call succeeding; the table is gone and the snapshot
\* returned has the Name and Tags of the actual snapshot and CloudID "". A
\* Delete() whose disassociate fails issues no DeleteRouteTable.
C9_DeleteOrder ==
    /\ (last.op = "Delete" /\ last.kind = "ok")
        => /\ PreActual.CloudID # ""
           /\ \E rt \in last.pre.tables :
                /\ {t \in last.pre.tables : <<PairTag, ClusterSubnet.Name>> \in t.Tags} = {rt}
                /\ last.calls =
                    << Call("DescribeRouteTables", <<PairTag, ClusterSubnet.Name>>, TRUE),
                       Call("DisassociateRouteTable",
                            <<rt.Associations[1].RouteTableAssociationId>>, TRUE),
                       Call("DeleteRouteTable", <<rt.RouteTableId>>, TRUE) >>
                /\ tables = last.pre.tables \ {rt}
           /\ Deref(last.snap) = [Name |-> PreActual.Name, CloudID |-> "",
                                  Tags |-> PreActual.Tags]
    /\ (last.op = "Delete" /\ \E i \in Issued("DisassociateRouteTable") : ~last.calls[i].ok)
        => /\ Issued("DeleteRouteTable") = {}
           /\ last.kind = "error"
           /\ tables = last.pre.tables

C9_Witness ==
    /\ last.op = "Delete"
    /\ last.kind = "ok"
    /\ Len(last.calls) = 3

\* C10: Actual, Apply and Delete always end by returning a snapshot or an
\* error, never by aborting the process.
C10_NeverAborts == last.kind \in {"ok", "error"}

\* ====================================================== claims C11 .. C20
FreshExpected == last.op = "Expected" /\ last.pre.r.CachedExpected = Nil

C12_ActualCachedForGood ==
    [][(r.CachedActual # Nil /\ ~NewInstance)
        => /\ r'.CachedActual = r.CachedActual
           /\ Actual => /\ last'.kind = "ok"
                        /\ last'.snap = r.CachedActual
                        /\ last'.calls = <<>>]_vars

\* a cached Actual() that a look at the provider would answer differently
C12_Witness ==
    /\ last.op = "Actual"
    /\ last.pre.r.CachedActual # Nil
    /\ Deref(last.snap).CloudID = ""
    /\ ClusterSubnet.Identifier # ""
    /\ Cardinality(Matching) = 1

Operations == {"Actual", "Expected", "Apply", "Delete"}
IdentityPair == <<PairTag, ClusterSubnet.Name>>
PreMatching == {t \in last.pre.tables : IdentityPair \in t.Tags}

\* C13: no operation changes a snapshot that Actual() or Expected() has already
\* returned: the instance's cached actual and cached expected are after every
\* operation what they were before it.
C13_SnapshotsImmutable ==
    (last.op \in Operations)
    => /\ (last.pre.r.CachedActual # Nil => r.CachedActual = last.pre.r.CachedActual)
       /\ (last.pre.r.CachedExpected # Nil => r.CachedExpected = last.pre.r.CachedExpected)

\* C14 as stated: every snapshot Actual, Expected, Apply or Delete returns has
\* the identity pair kubicorn-route-table-subnet-pair = subnet name in its Tags.
C14_EverySnapshotHasPair ==
    (last.op \in Operations /\ last.kind = "ok")
    => IdentityPair \in Deref(last.snap).Tags

\* C14 amended: the snapshot returned has the identity pair in its Tags when it
\* comes from Expected, from an Actual that found the table (CloudID not ""),
\* from Apply on its equal path or from Delete; the default snapshot of Actual
\* (CloudID "") and the new snapshot of an Apply that created the table have
\* no tags at all.
C14_SnapshotsWithPair ==
    (last.op \in Operations /\ last.kind = "ok")
    => LET s == Deref(last.snap)
       IN  IF \/ (last.op = "Actual" /\ s.CloudID = "")
              \/ (last.op = "Apply" /\ last.calls # <<>>)
           THEN s.Tags = {}
           ELSE IdentityPair \in s.Tags

C14_Witness ==
    /\ last.op = "Delete"
    /\ last.kind = "ok"
    /\ IdentityPair \in Deref(last.snap).Tags

\* C15: when the gateway lookup of Apply does not match exactly one gateway,
\* Apply returns an error and issues no CreateRoute, AssociateRouteTable or
\* CreateTags; when the table lookup of Delete does not match exactly one
\* table, Delete returns an error, issues no DisassociateRouteTable or
\* DeleteRouteTable and leaves the tables as they were.
C15_LookupNeedsExactlyOne ==
    /\ (/\ last.op = "Apply"
        /\ ~IsEqual(PreActual, PreExpected)
        /\ Cardinality(MatchingGateways) # 1)
        => /\ last.kind = "error"
           /\ Issued("CreateRoute") = {}
           /\ Issued("AssociateRouteTable") = {}
           /\ Issued("CreateTags") = {}
           /\ (\A i \in 1..Len(last.calls) : last.calls[i].ok)
                => last.err = "CardinalityFault"
    /\ (/\ last.op = "Delete"
        /\ PreActual.CloudID # ""
        /\ Cardinality(PreMatching) # 1)
        => /\ last.kind = "error"
           /\ Issued("DisassociateRouteTable") = {}
           /\ Issued("DeleteRouteTable") = {}
           /\ tables = last.pre.tables
           /\ (\A i \in 1..Len(last.calls) : last.calls[i].ok)
                => last.err = "CardinalityFault"

C15_Witness ==
    /\ last.op = "Delete"
    /\ last.err = "CardinalityFault"
    /\ Cardinality(PreMatching) >= 2

\* C16: Actual, Apply, Delete and Tag return success only when every provider
\* call they issued succeeded; a provider call that fails is the last call of
\* the invocation, and the invocation returns its error.
C16_NoFaultSwallowed ==
    (last.op \in Operations \cup {"Tag"})
    => /\ (last.kind = "ok" => \A i \in 1..Len(last.calls) : last.calls[i].ok)
       /\ \A i \in 1..Len(last.calls) :
            ~last.calls[i].ok
            => /\ i = Len(last.calls)
               /\ last.kind = "error"
               /\ last.err = "TransportFault"
               /\ last.snap = Nil

\* a retried Tag on the table a failed Apply left untagged, failing again
C16_Witness ==
    /\ last.op = "Tag"
    /\ last.kind = "error"
    /\ last.calls[1].args[1] \in Ids(tables)

ApplyOrder == <<"CreateRouteTable", "DescribeInternetGateways", "CreateRoute",
                "AssociateRouteTable", "CreateTags">>
HasIdentityTag(t) == \E kv \in t.Tags : kv[1] = PairTag

\* C17: the provider calls of an Apply are a prefix of CreateRouteTable,
\* DescribeInternetGateways, CreateRoute, AssociateRouteTable, CreateTags, each
\* issued after the one before it succeeded; and every step keeps the remote
\* state such that a route table with the identity tag has the default route to
\* a gateway tagged with the cluster's name and an association, unless a Delete
\* took the association away (in this step or an earlier one).
C17_TaggedTableIsComplete ==
    [][/\ (last'.op = "Apply")
            => \A i \in 1..Len(last'.calls) :
                /\ last'.calls[i].api = ApplyOrder[i]
                /\ (i < Len(last'.calls) => last'.calls[i].ok)
       /\ \A t \in tables' :
            HasIdentityTag(t)
            => /\ \E g \in MatchingGateways :
                    [Destination |-> "0.0.0.0/0", GatewayId |-> g.InternetGatewayId] \in t.Routes
               /\ \/ Len(t.Associations) >= 1
                  \/ Delete
                  \/ t \in tables]_vars

\* a Tag retried by itself has put the identity tag on a table
C17_Witness ==
    /\ last.op = "Tag"
    /\ last.kind = "ok"
    /\ \E t \in tables : HasIdentityTag(t) /\ t \notin last.pre.tables

\* the realized subnets named like the resource, in a pool named like it
NamedSubnets ==
    {p \in 1..Len(cluster.ServerPools) :
        /\ cluster.ServerPools[p].Name = r.Name
        /\ \E n \in 1..Len(cluster.ServerPools[p].Subnets) :
            /\ cluster.ServerPools[p].Subnets[n].Name = r.Name
            /\ cluster.ServerPools[p].Subnets[n].Identifier # ""}

\* C18: a non-equal Apply on a cluster that has no realized subnet named like
\* the resource in a pool named like it returns an error and issues no
\* AssociateRouteTable and no CreateTags; when its three first calls succeeded
\* the error is the missing prerequisite, and the table it created stays
\* remotely with its route, without association and without any tag.
C18_MissingSubnetStopsApply ==
    (/\ last.op = "Apply"
     /\ ~IsEqual(PreActual, PreExpected)
     /\ NamedSubnets = {})
    => /\ last.kind = "error"
       /\ Issued("AssociateRouteTable") = {}
       /\ Issued("CreateTags") = {}
       /\ r = last.pre.r
       /\ (Len(last.calls) = 3 /\ \A i \in 1..3 : last.calls[i].ok)
            => /\ last.err = "MissingPrerequisite"
               /\ last.pre.tables \subseteq tables
               /\ \E t \in tables \ last.pre.tables :
                    /\ tables \ last.pre.tables = {t}
                    /\ Cardinality(t.Routes) = 1
                    /\ t.Associations = <<>>
                    /\ t.Tags = {}

\* the missing prerequisite although the resource's own subnet is realized
C18_Witness ==
    /\ last.op = "Apply"
    /\ last.err = "MissingPrerequisite"
    /\ ClusterSubnet.Identifier # ""

\* C19: a successful non-equal Apply associates the table with the subnet of
\* the resource's own ClusterSubnet reference.
C19_AssociatesOwnSubnet ==
    (/\ last.op = "Apply"
     /\ last.kind = "ok"
     /\ Issued("AssociateRouteTable") # {})
    => \A i \in Issued("AssociateRouteTable") :
            last.calls[i].args[2] = ClusterSubnet.Identifier

\* ================================================================ claim C20
\* The reconciliation driver: a pass is Actual, Expected, then Apply when Actual
\* succeeded; a failed pass is retried with a new instance. The subnet resource
\* realizes the subnets at any moment outside Apply.
AllCallsOK(l) == \A i \in 1..Len(l.calls) : l.calls[i].ok

DriverActual ==
    /\ r.CachedActual = Nil /\ r.CachedExpected = Nil
    /\ last.op \in {"none", "Actual"}
    /\ Actual

DriverExpected ==
    /\ r.CachedActual # Nil /\ r.CachedExpected = Nil
    /\ Expected

DriverApply ==
    /\ r.CachedActual # Nil /\ r.CachedExpected # Nil
    /\ last.op \in {"none", "Expected"}
    /\ Apply

DriverRetry ==
    /\ last.op = "Apply" /\ last.kind = "error"
    /\ NewInstance

DriverRealize ==
    /\ last.op # "Apply"
    /\ RealizeSubnet

DriverNext ==
    \/ DriverActual
    \/ DriverExpected
    \/ DriverApply
    \/ DriverRetry
    \/ DriverRealize

\* Every step of a pass is eventually taken, the provider's calls eventually
\* all succeed, and every subnet is eventually realized.
DriverFairness ==
    /\ SF_vars(DriverActual /\ AllCallsOK(last'))
    /\ WF_vars(DriverExpected)
    /\ SF_vars(DriverApply /\ AllCallsOK(last'))
    /\ WF_vars(DriverRetry)
    /\ SF_vars(DriverRealize)

DriverSpec == Init /\ [][DriverNext]_vars /\ DriverFairness

\* A cluster in which the resource, its pool and its subnet carry one name that
\* no other pool carries, and exactly one gateway carries the cluster's name.
WellFormed ==
    /\ Cardinality(MatchingGateways) = 1
    /\ r.Name = ServerPool.Name
    /\ r.Name = ClusterSubnet.Name
    /\ \A p \in 1..Len(cluster.ServerPools) :
        cluster.ServerPools[p].Name = r.Name => p = r.ServerPool

\* exactly one table carries the subnet's identity pair, and it is associated
\* with the subnet
Converged ==
    /\ ClusterSubnet.Identifier # ""
    /\ \E t \in tables :
        /\ Matching = {t}
        /\ \E i \in 1..Len(t.Associations) :
            t.Associations[i].SubnetId = ClusterSubnet.Identifier

\* C20: under the driver, with a provider whose calls eventually succeed,
\* reconciliation of a well-formed cluster converges: eventually exactly one
\* route table tagged with the subnet's identity pair exists and is associated
\* with the subnet (or the model's supply of table ids is used up).
C20_ReconciliationConverges == WellFormed ~> (Converged \/ nextId = MaxTables)
====
